---- MODULE Spec2Model ----
(***************************************************************************)
(* A model of the go-wasm decoder: the byte cursor (reader), the LEB128    *)
(* codec (binary.go), and the section parser.  The repository holds two    *)
(* builds of the parser, src/parser.go and the parser kept in              *)
(* src/sections.go; they share the codec and differ in how Parse ends the  *)
(* section loop, in parseMultiSection's length check and in a few field    *)
(* masks.  The repository also holds an earlier codec (src/leb128.go and   *)
(* the copy of it in src/unnamed/part_000) whose readVarUint7 clears bit 0 *)
(* of the byte; sections.go is the parser that calls readVarUint7.  The    *)
(* variable ver says which build runs: "parser" (parser.go over            *)
(* binary.go), "sections" (sections.go over binary.go) or "leb128"         *)
(* (sections.go over the earlier codec).                                   *)
(*                                                                         *)
(* Every decoder is an operator from (buf, i) - the stream and the number  *)
(* of bytes taken from it so far - to a record [i, err, v]: the new        *)
(* position, the error (NoErr when nil) and the decoded value.             *)
(***************************************************************************)
EXTENDS Integers, Sequences, FiniteSets, TLC

VARIABLES
  ver,       \* which build of the parser runs: "parser", "sections", "leb128"
  input,     \* the bytes of the io.Reader handed to Parse
  written,   \* ghost: the blobs the producer wrote after the preamble
  i,         \* reader.i: bytes taken from the stream so far
  pc,        \* position of Parse: "preamble", "sections", "done"
  sections,  \* m.Sections
  frames,    \* ghost: one record per parseSection call that read a kind byte
  result,    \* what Parse returned: "none" (running), "ok", "error", "panic"
  err,       \* the error returned by Parse (NoErr when nil)
  cv,        \* codec: the value under test (set of bit positions)
  cbuf,      \* codec: the bytes handed to the decoder
  cres,      \* codec: the decoder's result record
  cpc,       \* codec: "idle", "encoded", "decoded"
  csize,     \* codec: varUint32Size of the decoded value
  expr,      \* ghost: the expression the producer wrote for Eval
  ebuf,      \* Eval: the bytes of the bytes.Buffer
  ei,        \* Eval: bytes read from the buffer so far
  stack,     \* Eval: the evaluation stack
  eops,      \* ghost: the bytes Eval read as opcodes
  epc,       \* Eval: "idle", "loop", "done"
  eret,      \* Eval: what it returned, [stack, err]
  rlen,      \* reader on its own: the length of the client's stream
  rtaken,    \* ghost: bytes the client's stream has handed out so far
  ri,        \* reader on its own: reader.i
  rlast,     \* reader on its own: what the last Read returned, [n, err]
  fbuf,      \* field decoders on their own: the bytes of the stream
  fop,       \* the decoder that ran: "none", "int7", "uint32", "limits"
  fres       \* its result record

vars == <<ver, input, written, i, pc, sections, frames, result, err,
          cv, cbuf, cres, cpc, csize, expr, ebuf, ei, stack, eops, epc, eret,
          rlen, rtaken, ri, rlast, fbuf, fop, fres>>
parseVars == <<ver, input, written, i, pc, sections, frames, result, err>>
codecVars == <<cv, cbuf, cres, cpc, csize>>
evalVars == <<expr, ebuf, ei, stack, eops, epc, eret>>
readerVars == <<rlen, rtaken, ri, rlast>>
fieldVars == <<fbuf, fop, fres>>

(***************************************************************************)
(* Bounds of the model.                                                    *)
(***************************************************************************)
\* sections written after the preamble
MaxSections == 2
\* bytes that may be cut from the end of the stream
MaxCut == 7
\* length of the long custom-section name (the two-byte name_len case)
LongNameLen == 128
\* the codec is tried on 0..MaxCodecValue and on the boundary values
MaxCodecValue == 300
\* bytes that may follow an encoding in the codec's buffer
MaxTrail == 1
\* i32.const instructions of an expression handed to Eval
MaxConsts == 2
\* bytes that may be cut from the end of an expression
MaxExprCut == 3
\* length of the byte strings handed to the field decoders
MaxFieldLen == 4
\* continuation bytes of the long varints handed to the field decoders
MaxContinued == 7
\* length of the client's stream when the reader is driven on its own
MaxStreamLen == 8
\* length of the slice handed to reader.Read
MaxRead == 4

Min(a, b) == IF a < b THEN a ELSE b

\* Larger than any stream of the model; stands for lengths of 2^31 and more.
Huge == 2^30 + (2^30 - 1)

(***************************************************************************)
(* Errors.  An error is the chain of its messages, outermost first:        *)
(* fmt.Errorf("read kind: %v", err) puts "read kind" before err's chain.   *)
(* err.Error() is the chain joined with ": ".                              *)
(***************************************************************************)
NoErr == <<>>
E(m, a) == [msg |-> m, args |-> a]
Wrap(m, e) == <<E(m, <<>>)>> \o e
WrapN(m, a, e) == <<E(m, a)>> \o e
Errorf(m, a) == <<E(m, a)>>
io_EOF == <<E("EOF", <<>>)>>
io_ErrUnexpectedEOF == <<E("unexpected EOF", <<>>)>>
Cause(e) == e[Len(e)]

Ret(j, v) == [i |-> j, err |-> NoErr, v |-> v]
Fail(j, e) == [i |-> j, err |-> e, v |-> <<>>]
Failed(r) == r.err # NoErr

\* x := e; body - the value e is given the name of k's parameter.  e is
\* evaluated once, as the assignment does: x ranges over the set {e}.
With(e, k(_)) == CHOOSE y \in {k(x) : x \in {e}} : TRUE
\* r, err := ...; if err != nil { return fmt.Errorf("msg: %v", err) }; k(r)
Try(r, msg, k(_)) ==
  CHOOSE y \in {IF Failed(x) THEN Fail(x.i, Wrap(msg, x.err)) ELSE k(x)
                 : x \in {r}} : TRUE
\* if err != nil { return err }
TryRaw(r, k(_)) ==
  CHOOSE y \in {IF Failed(x) THEN Fail(x.i, x.err) ELSE k(x) : x \in {r}} : TRUE
\* if err != nil { return fmt.Errorf("msg") }: the cause is dropped.
TryDrop(r, msg, k(_)) ==
  CHOOSE y \in {IF Failed(x) THEN Fail(x.i, Errorf(msg, <<>>)) ELSE k(x)
                 : x \in {r}} : TRUE
\* A Go run-time panic (make with a negative length).
Panic == <<E("panic", <<>>)>>

(***************************************************************************)
(* Byte cursor.                                                            *)
(***************************************************************************)
\* The client's stream at position j asked for n > 0 bytes: what is left,
\* up to n bytes, or io.EOF when nothing is left.
rd_Read(buf, j, n) ==
  IF j >= Len(buf) THEN [n |-> 0, err |-> io_EOF]
  ELSE [n |-> Min(n, Len(buf) - j), err |-> NoErr]

\* reader.Read after r.rd.Read returned r = [n, err], with j = r.i: on an
\* error it returns 0 and the error, else n is added to r.i.
reader_Count(j, r) ==
  IF r.err # NoErr THEN [n |-> 0, i |-> j, err |-> r.err]
  ELSE [n |-> r.n, i |-> j + r.n, err |-> NoErr]

\* reader.Read: the bytes read are recorded in the reader.
reader_Read(buf, j, n) == reader_Count(j, rd_Read(buf, j, n))

\* io.ReadFull through reader.Read, as binary.Read uses it: n bytes, io.EOF
\* when none could be read, io.ErrUnexpectedEOF after a partial read.
\* Zero bytes are read without touching the stream.
RECURSIVE ReadFull(_, _, _, _)
ReadFull(buf, j, n, got) ==
  IF got >= n THEN Ret(j, SubSeq(buf, j - n + 1, j))
  ELSE With(reader_Read(buf, j, n - got), LAMBDA r :
         IF r.err # NoErr
           THEN Fail(r.i, IF got = 0 THEN io_EOF ELSE io_ErrUnexpectedEOF)
           ELSE ReadFull(buf, r.i, n, got + r.n))

\* read: binary.Read of a value of n bytes (little endian).
read(buf, j, n) == ReadFull(buf, j, n, 0)

readByte(buf, j) ==
  With(reader_Read(buf, j, 1), LAMBDA r :
    IF r.err # NoErr THEN Fail(r.i, r.err) ELSE Ret(r.i, buf[j + 1]))

\* io.CopyN(ioutil.Discard, r, n): takes up to n bytes; io.EOF when the
\* stream ends first.  Nothing is read for n = 0.
RECURSIVE CopyN(_, _, _)
CopyN(buf, j, n) ==
  IF n = 0 THEN Ret(j, 0)
  ELSE With(reader_Read(buf, j, n), LAMBDA r :
         IF r.err # NoErr THEN Fail(r.i, io_EOF) ELSE CopyN(buf, r.i, n - r.n))

(***************************************************************************)
(* Variable-length integer codec.  A uint32 is the set of its set bits,    *)
(* so that the 32-bit width is exact.                                      *)
(***************************************************************************)
Bit(b, k) == (b \div (2^k)) % 2 = 1
Bits32 == 0..31

\* uint32(b & 0x7F) << shift, in 32 bits.
Shl7(b, shift) == {k + shift : k \in {k \in 0..6 : Bit(b, k)}} \cap Bits32

\* The loop of readVarUint32 with shift += 8, a faulty variant: C10 must fail on it.
RECURSIVE readVarUint32Loop_Shift8(_, _, _, _)
readVarUint32Loop_Shift8(buf, j, shift, v) ==
  With(readByte(buf, j), LAMBDA b :
    IF Failed(b) THEN [i |-> b.i, err |-> b.err, v |-> v]
    ELSE IF b.v < 128 THEN Ret(b.i, v \cup Shl7(b.v, shift))
    ELSE readVarUint32Loop_Shift8(buf, b.i, shift + 8, v \cup Shl7(b.v, shift)))

\* The loop of readVarUint32, entered with the shift and *v so far.
RECURSIVE readVarUint32Loop(_, _, _, _)
readVarUint32Loop(buf, j, shift, v) ==
  With(readByte(buf, j), LAMBDA b :
    IF Failed(b) THEN [i |-> b.i, err |-> b.err, v |-> v]
    ELSE IF b.v < 128 THEN Ret(b.i, v \cup Shl7(b.v, shift))
    ELSE readVarUint32Loop(buf, b.i, shift + 7, v \cup Shl7(b.v, shift)))

readVarUint32(buf, j) == readVarUint32Loop(buf, j, 0, {})

\* The number a uint32 stands for (lengths of 2^31 and more: Huge).
RECURSIVE SumBits(_)
SumBits(v) == IF v = {} THEN 0
              ELSE With(CHOOSE k \in v : TRUE, LAMBDA k : 2^k + SumBits(v \ {k}))
Num(v) == IF 31 \in v THEN Huge ELSE SumBits(v)

\* The bits of a number below 2^31.
ToBits(n) == {k \in 0..30 : Bit(n, k)}

\* readVarUint32 as the parser uses it: the value as a number.
readU32(buf, j) ==
  With(readVarUint32(buf, j), LAMBDA r : [i |-> r.i, err |-> r.err, v |-> Num(r.v)])

\* read of a uint8, int8 or bool variable: one raw byte.
readU8(buf, j) == TryRaw(read(buf, j, 1), LAMBDA r : Ret(r.i, r.v[1]))
\* readVarUint1: one raw byte.
readVarUint1(buf, j) == readU8(buf, j)
\* readVarUint7: one raw byte in binary.go; in leb128.go the byte & 0xFE.
readVarUint7(v, buf, j) ==
  IF v = "leb128"
    THEN TryRaw(read(buf, j, 1), LAMBDA r : Ret(r.i, r.v[1] - (r.v[1] % 2)))
    ELSE readU8(buf, j)
\* readVarInt7: one byte, masked to its low 7 bits.
readVarInt7(buf, j) == TryRaw(read(buf, j, 1), LAMBDA r : Ret(r.i, r.v[1] % 128))

\* varUint32Size: counts the bytes of v, 8 bits at a time.
RECURSIVE varUint32Size(_)
varUint32Size(v) == IF v > 0 THEN 1 + varUint32Size(v \div 256) ELSE 0

\* readUntil: appends bytes up to and including delim.
RECURSIVE readUntil(_, _, _, _)
readUntil(buf, j, delim, acc) ==
  TryRaw(readByte(buf, j), LAMBDA b :
    IF b.v = delim THEN Ret(b.i, Append(acc, b.v))
    ELSE readUntil(buf, b.i, delim, Append(acc, b.v)))

(***************************************************************************)
(* Eval (eval.go): the constant-expression evaluator.  It reads from a     *)
(* bytes.Buffer, not from the parser's reader.  An int32 under             *)
(* construction is the set of its set bits, bit 31 the sign.               *)
(***************************************************************************)
\* the end opcode and i32.const, as Eval spells them
evalEnd == 11
i32Const == 65

\* bytes.Buffer.ReadByte: the next byte, io.EOF when the buffer is empty.
Buffer_ReadByte(buf, j) ==
  IF j >= Len(buf) THEN Fail(j, io_EOF) ELSE Ret(j + 1, buf[j + 1])

\* readByte on a bytes.Buffer: Read of one byte, io.EOF when it is empty.
readByteBuffer(buf, j) ==
  With(rd_Read(buf, j, 1), LAMBDA r :
    IF r.err # NoErr THEN Fail(j, r.err) ELSE Ret(j + r.n, buf[j + 1]))

\* The number an int32 stands for (two's complement).
Int32(v) == IF 31 \in v THEN SumBits(v \ {31}) - 2^30 - 2^30 ELSE SumBits(v)

\* The loop of readVarInt32: *v |= int32(b&0x7F) << shift, shift += 7.
RECURSIVE readVarInt32Loop(_, _, _, _)
readVarInt32Loop(buf, j, shift, v) ==
  With(readByteBuffer(buf, j), LAMBDA b :
    IF Failed(b) THEN [i |-> b.i, err |-> b.err, v |-> v]
    ELSE IF b.v < 128 THEN Ret(b.i, v \cup Shl7(b.v, shift))
    ELSE readVarInt32Loop(buf, b.i, shift + 7, v \cup Shl7(b.v, shift)))

readVarInt32(buf, j) ==
  With(readVarInt32Loop(buf, j, 0, {}), LAMBDA r :
    [i |-> r.i, err |-> r.err, v |-> Int32(r.v)])

\* What a round of Eval's loop leaves: the cursor, the stack, and when Eval
\* returns in that round (done) the error it returns.
EvalGoesOn(j, st) == [i |-> j, stack |-> st, err |-> NoErr, done |-> FALSE]
EvalReturns(j, st, e) == [i |-> j, stack |-> st, err |-> e, done |-> TRUE]

\* switch b with a default case that goes on to the next opcode, a faulty
\* variant: C15 must fail on it.
evalSwitch_SkipUnknown(b, buf, j, st) ==
  IF b = i32Const
    THEN With(readVarInt32(buf, j), LAMBDA n :
           IF Failed(n) THEN EvalReturns(n.i, <<>>, n.err)
           ELSE EvalGoesOn(n.i, Append(st, n.v)))
    ELSE EvalGoesOn(j, st)

\* switch b: i32.const pushes its immediate, any other opcode is an error.
evalSwitch(b, buf, j, st) ==
  IF b = i32Const
    THEN With(readVarInt32(buf, j), LAMBDA n :
           IF Failed(n) THEN EvalReturns(n.i, <<>>, n.err)
           ELSE EvalGoesOn(n.i, Append(st, n.v)))
    ELSE EvalReturns(j, <<>>, Errorf("unknown opcode", <<b>>))

\* One round of the loop of Eval at cursor j with stack st.
evalRound(buf, j, st) ==
  With(Buffer_ReadByte(buf, j), LAMBDA b :
    IF Failed(b) THEN EvalReturns(b.i, <<>>, io_ErrUnexpectedEOF)
    ELSE IF b.v = evalEnd THEN EvalReturns(b.i, st, NoErr)
    ELSE evalSwitch(b.v, buf, b.i, st))

\* Eval: the loop from cursor j with stack st until it returns.
RECURSIVE Eval(_, _, _)
Eval(buf, j, st) ==
  With(evalRound(buf, j, st), LAMBDA r :
    IF r.done THEN r ELSE Eval(buf, r.i, r.stack))

\* uint32 subtraction; a negative difference wraps to 2^32 - (b - a).
sub32(a, b) == IF a >= b THEN a - b ELSE Huge

(***************************************************************************)
(* Program constants.                                                      *)
(***************************************************************************)
secCustom == 0
secType == 1
secImport == 2
secFunction == 3
secTable == 4
secMemory == 5
secGlobal == 6
secExport == 7
secStart == 8
secElement == 9
secCode == 10
secData == 11
opEnd == 11
ExtKindFunction == 0
ExtKindTable == 1
ExtKindMemory == 2
ExtKindGlobal == 3
NameTypeModule == 0
NameTypeFunction == 1
NameTypeLocal == 2
\* magicnumber 0x6d736100 and version 1 as binary.Read sees them (little endian).
magicnumber == <<0, 97, 115, 109>>
version1 == <<1, 0, 0, 0>>
\* the string "name"
nameName == <<110, 97, 109, 101>>

Versions == {"parser", "sections", "leb128"}
\* The builds whose parser is the one of sections.go.
SectionsBuild(v) == v \in {"sections", "leb128"}

\* A length-prefixed string: the length, then that many bytes.
\* lenMsg and bytesMsg are the contexts of the two reads; the callers that
\* drop the cause of the second read pass keep = FALSE.
readString(buf, j, lenMsg, bytesMsg, keep) ==
  Try(readU32(buf, j), lenMsg, LAMBDA l :
  With(read(buf, l.i, l.v), LAMBDA b :
    IF Failed(b) THEN Fail(b.i, IF keep THEN Wrap(bytesMsg, b.err)
                                        ELSE Errorf(bytesMsg, <<>>))
    ELSE Ret(b.i, b.v)))

\* A one-byte type tag: read raw in parser.go, readVarInt7 in sections.go.
readTag(v, buf, j) == IF SectionsBuild(v) THEN readVarInt7(buf, j) ELSE readU8(buf, j)

\* parseResizableLimits that reads a maximum for the flag 1 only, a faulty
\* variant: C25 must fail on it.
parseResizableLimits_FlagIsOne(buf, j) ==
  Try(readU8(buf, j), "flags", LAMBDA hasMax :
  Try(readU32(buf, hasMax.i), "initial", LAMBDA ini :
    IF hasMax.v # 1 THEN Ret(ini.i, [Initial |-> ini.v, Maximum |-> 0])
    ELSE Try(readU32(buf, ini.i), "maximum", LAMBDA max :
           Ret(max.i, [Initial |-> ini.v, Maximum |-> max.v]))))

parseResizableLimits(buf, j) ==
  Try(readU8(buf, j), "flags", LAMBDA hasMax :
  Try(readU32(buf, hasMax.i), "initial", LAMBDA ini :
    IF hasMax.v = 0 THEN Ret(ini.i, [Initial |-> ini.v, Maximum |-> 0])
    ELSE Try(readU32(buf, ini.i), "maximum", LAMBDA max :
           Ret(max.i, [Initial |-> ini.v, Maximum |-> max.v]))))

(***************************************************************************)
(* parseMultiSection.  Its callback f and the for loop around it are, for  *)
(* each section, a recursive operator of that section (typeEntries, ...):  *)
(* round k runs f where round k - 1 stopped, and the first error ends the  *)
(* loop as "entry k: ...".  What parseMultiSection does before the loop    *)
(* and after it is modelled here.                                          *)
(***************************************************************************)
\* A round of a loop ended with e: on an error the loop returns it, wrapped
\* in msg and the round's ordinal when msg is not empty.
RoundFailed(e, msg, k) ==
  Fail(e.i, IF msg = "" THEN e.err ELSE WrapN(msg, <<k>>, e.err))

\* Before the loop: the payload length pl, the reader's index s after it
\* (taken in sections.go only, where it is used), and the entry count n.
parseMultiSectionHead(buf, j) ==
  Try(readU32(buf, j), "read type section payload length", LAMBDA pl :
  Try(readU32(buf, pl.i), "read section count", LAMBDA n :
  Ret(n.i, [pl |-> pl.v, s |-> pl.i, n |-> n.v])))

\* After the loop, with es its result: parser.go returns; sections.go
\* compares the bytes read since s with the payload length.
parseMultiSectionEnd(v, h, es) ==
  IF ~Failed(es) /\ SectionsBuild(v) /\ es.i - h.s # h.pl
    THEN Fail(es.i, Errorf("section was not fully read", <<h.pl, es.i - h.s>>))
    ELSE es

(***************************************************************************)
(* Payload decoders.  v is the build.                                      *)
(***************************************************************************)
\* for i := range e.Params / e.ReturnTypes: n value types, msg the context
\* of a failed read.
RECURSIVE valueTypes(_, _, _, _, _, _, _)
valueTypes(v, buf, j, n, k, acc, msg) ==
  IF k >= n THEN Ret(j, acc)
  ELSE With(readTag(v, buf, j), LAMBDA e :
         IF Failed(e) THEN Fail(e.i, Wrap(msg, e.err))
         ELSE valueTypes(v, buf, e.i, n, k + 1, Append(acc, e.v), msg))

typeEntry(v, buf, j) ==
  Try(readTag(v, buf, j), "read form", LAMBDA form :
  Try(readU32(buf, form.i), "read func param count", LAMBDA pc_ :
  TryRaw(valueTypes(v, buf, pc_.i, pc_.v, 0, <<>>, "read function param type"),
         LAMBDA ps :
  Try(readU8(buf, ps.i), "read number of returns from function", LAMBDA rc :
  TryRaw(valueTypes(v, buf, rc.i, rc.v, 0, <<>>, "read function return type"),
         LAMBDA rs :
  Ret(rs.i, [Form |-> form.v, Params |-> ps.v, ReturnTypes |-> rs.v]))))))

RECURSIVE typeEntries(_, _, _, _, _, _)
typeEntries(v, buf, j, n, k, acc) ==
  IF k >= n THEN Ret(j, acc)
  ELSE With(typeEntry(v, buf, j), LAMBDA e :
         IF Failed(e) THEN RoundFailed(e, "entry", k)
         ELSE typeEntries(v, buf, e.i, n, k + 1, Append(acc, e.v)))

parseTypeSection(v, buf, j) ==
  TryRaw(parseMultiSectionHead(buf, j), LAMBDA h :
  TryRaw(parseMultiSectionEnd(v, h.v, typeEntries(v, buf, h.i, h.v.n, 0, <<>>)),
         LAMBDA r : Ret(r.i, [kind |-> "Type", Entries |-> r.v])))

\* The kind-specific part of an import entry; e holds the fields read so far.
\* A pointer field is the empty set (nil) or the set of the one value it
\* points to.
importDescriptor(v, buf, j, e) ==
  IF e.Kind = ExtKindFunction THEN
    Try(readU32(buf, j), "read function type index", LAMBDA x :
      Ret(x.i, [e EXCEPT !.FunctionType = {[Index |-> x.v]}]))
  ELSE IF e.Kind = ExtKindTable THEN
    Try(readTag(v, buf, j), "read table element type", LAMBDA t :
    Try(parseResizableLimits(buf, t.i), "read table resizable limits", LAMBDA l :
      Ret(l.i, [e EXCEPT !.TableType = {[ElemType |-> t.v, Limits |-> l.v]}])))
  ELSE IF e.Kind = ExtKindMemory THEN
    Try(parseResizableLimits(buf, j), "read memory resizable limits", LAMBDA l :
      Ret(l.i, [e EXCEPT !.MemoryType = {[Limits |-> l.v]}]))
  ELSE IF e.Kind = ExtKindGlobal THEN
    Try(readTag(v, buf, j), "read global content type", LAMBDA t :
    Try(readU8(buf, t.i), "read global mutability", LAMBDA m :
      Ret(m.i, [e EXCEPT !.GlobalType =
           {[ContentType |-> t.v,
             Mutable |-> IF SectionsBuild(v) THEN m.v = 1 ELSE m.v # 0]}])))
  ELSE Ret(j, e)

importEntry(v, buf, j) ==
  TryRaw(readString(buf, j, "read module length", "read module name", TRUE), LAMBDA mn :
  TryRaw(readString(buf, mn.i, "read field length", "read field name", FALSE), LAMBDA fn :
  Try(readU8(buf, fn.i), "read kind", LAMBDA kind :
  importDescriptor(v, buf, kind.i,
         [Module |-> mn.v, Field |-> fn.v, Kind |-> kind.v, FunctionType |-> {},
          TableType |-> {}, MemoryType |-> {}, GlobalType |-> {}]))))

RECURSIVE importEntries(_, _, _, _, _, _)
importEntries(v, buf, j, n, k, acc) ==
  IF k >= n THEN Ret(j, acc)
  ELSE With(importEntry(v, buf, j), LAMBDA e :
         IF Failed(e) THEN RoundFailed(e, "entry", k)
         ELSE importEntries(v, buf, e.i, n, k + 1, Append(acc, e.v)))

parseImportSection(v, buf, j) ==
  TryRaw(parseMultiSectionHead(buf, j), LAMBDA h :
  TryRaw(parseMultiSectionEnd(v, h.v, importEntries(v, buf, h.i, h.v.n, 0, <<>>)),
         LAMBDA r : Ret(r.i, [kind |-> "Import", Entries |-> r.v])))

functionEntry(buf, j) ==
  Try(readU32(buf, j), "read function type", LAMBDA t : t)

RECURSIVE functionEntries(_, _, _, _, _)
functionEntries(buf, j, n, k, acc) ==
  IF k >= n THEN Ret(j, acc)
  ELSE With(functionEntry(buf, j), LAMBDA e :
         IF Failed(e) THEN RoundFailed(e, "entry", k)
         ELSE functionEntries(buf, e.i, n, k + 1, Append(acc, e.v)))

parseFunctionSection(v, buf, j) ==
  TryRaw(parseMultiSectionHead(buf, j), LAMBDA h :
  TryRaw(parseMultiSectionEnd(v, h.v, functionEntries(buf, h.i, h.v.n, 0, <<>>)),
         LAMBDA r : Ret(r.i, [kind |-> "Function", Types |-> r.v])))

\* The entry of a Table and of a Memory section: resizable limits only.
memoryEntry(buf, j) ==
  Try(parseResizableLimits(buf, j), "read memory resizable limits", LAMBDA l :
    Ret(l.i, [Limits |-> l.v]))

RECURSIVE memoryEntries(_, _, _, _, _)
memoryEntries(buf, j, n, k, acc) ==
  IF k >= n THEN Ret(j, acc)
  ELSE With(memoryEntry(buf, j), LAMBDA e :
         IF Failed(e) THEN RoundFailed(e, "entry", k)
         ELSE memoryEntries(buf, e.i, n, k + 1, Append(acc, e.v)))

parseTableSection(v, buf, j) ==
  TryRaw(parseMultiSectionHead(buf, j), LAMBDA h :
  TryRaw(parseMultiSectionEnd(v, h.v, memoryEntries(buf, h.i, h.v.n, 0, <<>>)),
         LAMBDA r : Ret(r.i, [kind |-> "Table", Entries |-> r.v])))

parseMemorySection(v, buf, j) ==
  TryRaw(parseMultiSectionHead(buf, j), LAMBDA h :
  TryRaw(parseMultiSectionEnd(v, h.v, memoryEntries(buf, h.i, h.v.n, 0, <<>>)),
         LAMBDA r : Ret(r.i, [kind |-> "Memory", Entries |-> r.v])))

globalEntry(v, buf, j) ==
  Try(readTag(v, buf, j), "read global content type", LAMBDA t :
  Try(readU8(buf, t.i), "read global mutability", LAMBDA m :
  Try(readUntil(buf, m.i, opEnd, <<>>), "read global init expression", LAMBDA x :
  Ret(x.i, [Type |-> [ContentType |-> t.v, Mutable |-> m.v # 0], Init |-> x.v]))))

RECURSIVE globalEntries(_, _, _, _, _, _)
globalEntries(v, buf, j, n, k, acc) ==
  IF k >= n THEN Ret(j, acc)
  ELSE With(globalEntry(v, buf, j), LAMBDA e :
         IF Failed(e) THEN RoundFailed(e, "entry", k)
         ELSE globalEntries(v, buf, e.i, n, k + 1, Append(acc, e.v)))

parseGlobalSection(v, buf, j) ==
  TryRaw(parseMultiSectionHead(buf, j), LAMBDA h :
  TryRaw(parseMultiSectionEnd(v, h.v, globalEntries(v, buf, h.i, h.v.n, 0, <<>>)),
         LAMBDA r : Ret(r.i, [kind |-> "Global", Globals |-> r.v])))

exportEntry(v, buf, j) ==
  TryRaw(readString(buf, j, "read field length", "read field", FALSE), LAMBDA f :
  Try(readVarUint7(v, buf, f.i), "read kind", LAMBDA kind :
  Try(readU32(buf, kind.i), "read index", LAMBDA x :
  Ret(x.i, [Field |-> f.v, Kind |-> kind.v, Index |-> x.v]))))

RECURSIVE exportEntries(_, _, _, _, _, _)
exportEntries(v, buf, j, n, k, acc) ==
  IF k >= n THEN Ret(j, acc)
  ELSE With(exportEntry(v, buf, j), LAMBDA e :
         IF Failed(e) THEN RoundFailed(e, "entry", k)
         ELSE exportEntries(v, buf, e.i, n, k + 1, Append(acc, e.v)))

parseExportSection(v, buf, j) ==
  TryRaw(parseMultiSectionHead(buf, j), LAMBDA h :
  TryRaw(parseMultiSectionEnd(v, h.v, exportEntries(v, buf, h.i, h.v.n, 0, <<>>)),
         LAMBDA r : Ret(r.i, [kind |-> "Export", Entries |-> r.v])))

\* parseStartSection: one varuint32, read right after the kind byte.
parseStartSection(buf, j) ==
  Try(readU32(buf, j), "read start index", LAMBDA x :
  Ret(x.i, [kind |-> "Start", Index |-> x.v]))

\* for i := range e.Elems: the function indices of an element segment; the
\* error names the index.
RECURSIVE elems(_, _, _, _, _)
elems(buf, j, n, k, acc) ==
  IF k >= n THEN Ret(j, acc)
  ELSE With(readU32(buf, j), LAMBDA e :
         IF Failed(e) THEN RoundFailed(e, "read element function index", k)
         ELSE elems(buf, e.i, n, k + 1, Append(acc, e.v)))

elementEntry(buf, j) ==
  Try(readU32(buf, j), "read element index", LAMBDA x :
  Try(readUntil(buf, x.i, opEnd, <<>>), "read offset expression", LAMBDA o :
  Try(readU32(buf, o.i), "read number of elements", LAMBDA n :
  TryRaw(elems(buf, n.i, n.v, 0, <<>>), LAMBDA es :
  Ret(es.i, [Index |-> x.v, Offset |-> o.v, Elems |-> es.v])))))

RECURSIVE elementEntries(_, _, _, _, _)
elementEntries(buf, j, n, k, acc) ==
  IF k >= n THEN Ret(j, acc)
  ELSE With(elementEntry(buf, j), LAMBDA e :
         IF Failed(e) THEN RoundFailed(e, "entry", k)
         ELSE elementEntries(buf, e.i, n, k + 1, Append(acc, e.v)))

parseElementSection(v, buf, j) ==
  TryRaw(parseMultiSectionHead(buf, j), LAMBDA h :
  TryRaw(parseMultiSectionEnd(v, h.v, elementEntries(buf, h.i, h.v.n, 0, <<>>)),
         LAMBDA r : Ret(r.i, [kind |-> "Element", Entries |-> r.v])))

localEntry(buf, j) ==
  Try(readU32(buf, j), "read local entry count", LAMBDA c :
  Try(readU8(buf, c.i), "read local entry value type", LAMBDA t :
  Ret(t.i, [Count |-> c.v, Type |-> t.v])))

\* for i := range e.Locals
RECURSIVE localEntries(_, _, _, _, _)
localEntries(buf, j, n, k, acc) ==
  IF k >= n THEN Ret(j, acc)
  ELSE With(localEntry(buf, j), LAMBDA e :
         IF Failed(e) THEN RoundFailed(e, "", k)
         ELSE localEntries(buf, e.i, n, k + 1, Append(acc, e.v)))

\* The code of a function body: numBytes bytes, the distance from the cursor
\* to the end of the body; make panics on a negative length.
bodyCode(buf, j, numBytes, ls) ==
  IF numBytes < 0 THEN Fail(j, Panic)
  ELSE Try(read(buf, j, numBytes), "read function bytecode", LAMBDA c :
         Ret(c.i, [Locals |-> ls, Code |-> c.v]))

\* A function body whose code is body-size bytes after the locals, a faulty
\* variant: C19 must fail on it.
functionBody_SizeAfterLocals(buf, j) ==
  Try(readU32(buf, j), "read body size", LAMBDA bs :
  Try(readU32(buf, bs.i), "read local count", LAMBDA lc :
  TryRaw(localEntries(buf, lc.i, lc.v, 0, <<>>), LAMBDA ls :
  bodyCode(buf, ls.i, bs.v, ls.v))))

\* A function body: the body size, the locals, and the code up to the end
\* of the body, which is the cursor after the body size plus the body size.
functionBody(buf, j) ==
  Try(readU32(buf, j), "read body size", LAMBDA bs :
  Try(readU32(buf, bs.i), "read local count", LAMBDA lc :
  TryRaw(localEntries(buf, lc.i, lc.v, 0, <<>>), LAMBDA ls :
  bodyCode(buf, ls.i, bs.i + bs.v - ls.i, ls.v))))

RECURSIVE functionBodies(_, _, _, _, _)
functionBodies(buf, j, n, k, acc) ==
  IF k >= n THEN Ret(j, acc)
  ELSE With(functionBody(buf, j), LAMBDA e :
         IF Failed(e) THEN RoundFailed(e, "entry", k)
         ELSE functionBodies(buf, e.i, n, k + 1, Append(acc, e.v)))

parseCodeSection(v, buf, j) ==
  TryRaw(parseMultiSectionHead(buf, j), LAMBDA h :
  TryRaw(parseMultiSectionEnd(v, h.v, functionBodies(buf, h.i, h.v.n, 0, <<>>)),
         LAMBDA r : Ret(r.i, [kind |-> "Code", Bodies |-> r.v])))

dataSegment(buf, j) ==
  Try(readU32(buf, j), "read data segment index", LAMBDA x :
  Try(readUntil(buf, x.i, opEnd, <<>>), "read data section offset initializer", LAMBDA o :
  TryRaw(readString(buf, o.i, "read data section size", "read data section data", TRUE),
         LAMBDA d :
  Ret(d.i, [Index |-> x.v, Offset |-> o.v, Data |-> d.v]))))

RECURSIVE dataSegments(_, _, _, _, _)
dataSegments(buf, j, n, k, acc) ==
  IF k >= n THEN Ret(j, acc)
  ELSE With(dataSegment(buf, j), LAMBDA e :
         IF Failed(e) THEN RoundFailed(e, "entry", k)
         ELSE dataSegments(buf, e.i, n, k + 1, Append(acc, e.v)))

parseDataSection(v, buf, j) ==
  TryRaw(parseMultiSectionHead(buf, j), LAMBDA h :
  TryRaw(parseMultiSectionEnd(v, h.v, dataSegments(buf, h.i, h.v.n, 0, <<>>)),
         LAMBDA r : Ret(r.i, [kind |-> "Data", Entries |-> r.v])))

naming(buf, j) ==
  Try(readU32(buf, j), "read naming index", LAMBDA x :
  TryRaw(readString(buf, x.i, "read naming length", "read name", TRUE), LAMBDA n :
  Ret(n.i, [Index |-> x.v, Name |-> n.v])))

\* for i := range m.Names
RECURSIVE namings(_, _, _, _, _)
namings(buf, j, n, k, acc) ==
  IF k >= n THEN Ret(j, acc)
  ELSE With(naming(buf, j), LAMBDA e :
         IF Failed(e) THEN RoundFailed(e, "", k)
         ELSE namings(buf, e.i, n, k + 1, Append(acc, e.v)))

parseNameMap(buf, j) ==
  Try(readU32(buf, j), "read name map count", LAMBDA count :
  TryRaw(namings(buf, count.i, count.v, 0, <<>>), LAMBDA ns :
  Ret(ns.i, [Names |-> ns.v])))

localName(buf, j) ==
  Try(readU32(buf, j), "read local func index", LAMBDA x :
  Try(parseNameMap(buf, x.i), "read local name map", LAMBDA m :
  Ret(m.i, [Index |-> x.v, LocalMap |-> m.v])))

\* for i := range l.Funcs
RECURSIVE localNames(_, _, _, _, _)
localNames(buf, j, n, k, acc) ==
  IF k >= n THEN Ret(j, acc)
  ELSE With(localName(buf, j), LAMBDA e :
         IF Failed(e) THEN RoundFailed(e, "", k)
         ELSE localNames(buf, e.i, n, k + 1, Append(acc, e.v)))

\* The name section before its payload is decoded.
emptyNameSection(name) ==
  [kind |-> "Name", Name |-> name, Module |-> <<>>, Functions |-> {}, Locals |-> {}]

\* namePayload whose switch has no default case, a faulty variant: C21 must
\* fail on it.
namePayload_NoDefault(name, t, buf, j) ==
  IF t = NameTypeModule THEN
    TryRaw(readString(buf, j, "read module name length", "read module name", TRUE),
           LAMBDA m : Ret(m.i, [emptyNameSection(name) EXCEPT !.Module = m.v]))
  ELSE IF t = NameTypeFunction THEN
    Try(parseNameMap(buf, j), "read function name map", LAMBDA m :
      Ret(m.i, [emptyNameSection(name) EXCEPT !.Functions = {m.v}]))
  ELSE IF t = NameTypeLocal THEN
    Try(readU32(buf, j), "read local func name count", LAMBDA count :
    TryRaw(localNames(buf, count.i, count.v, 0, <<>>), LAMBDA fs :
      Ret(fs.i, [emptyNameSection(name) EXCEPT !.Locals = {[Funcs |-> fs.v]}])))
  ELSE Ret(j, emptyNameSection(name))

\* The payload of a name section of name type t.
namePayload(name, t, buf, j) ==
  IF t = NameTypeModule THEN
    TryRaw(readString(buf, j, "read module name length", "read module name", TRUE),
           LAMBDA m : Ret(m.i, [emptyNameSection(name) EXCEPT !.Module = m.v]))
  ELSE IF t = NameTypeFunction THEN
    Try(parseNameMap(buf, j), "read function name map", LAMBDA m :
      Ret(m.i, [emptyNameSection(name) EXCEPT !.Functions = {m.v}]))
  ELSE IF t = NameTypeLocal THEN
    Try(readU32(buf, j), "read local func name count", LAMBDA count :
    TryRaw(localNames(buf, count.i, count.v, 0, <<>>), LAMBDA fs :
      Ret(fs.i, [emptyNameSection(name) EXCEPT !.Locals = {[Funcs |-> fs.v]}])))
  ELSE Fail(j, Errorf("unknown name section", <<t>>))

\* parseNameSection: one name type byte, one payload length, one payload.
\* n, the bytes left of the custom section, is not used.
parseNameSection(name, n, buf, j) ==
  Try(readU8(buf, j), "read name type", LAMBDA t :
  Try(readU32(buf, t.i), "read payload length", LAMBDA pl :
  namePayload(name, t.v, buf, pl.i)))

\* What follows the name of a custom section: the name section when the name
\* is "name", else rest bytes of payload.
customBody(name, rest, buf, j) ==
  IF name = nameName THEN parseNameSection(name, rest, buf, j)
  ELSE Try(read(buf, j, rest), "read custom section payload", LAMBDA p :
         Ret(p.i, [kind |-> "Custom", Name |-> name, Payload |-> p.v]))

\* parseCustomSection: payload length, name length, name; what is left of
\* the payload length after the name and varUint32Size(name length) is the
\* payload, or the name section when the name is "name".
parseCustomSection(buf, j) ==
  Try(readU32(buf, j), "read section payload length", LAMBDA pl :
  Try(readU32(buf, pl.i), "read section name length", LAMBDA nl :
  Try(read(buf, nl.i, nl.v), "read section name", LAMBDA b :
  customBody(b.v, sub32(sub32(pl.v, nl.v), varUint32Size(nl.v)), buf, b.i))))

(***************************************************************************)
(* Section dispatcher.                                                     *)
(***************************************************************************)
\* The decoder of a known section kind, entered after the kind byte.
parseKnown(v, sID, buf, j) ==
  CASE sID = secCustom -> parseCustomSection(buf, j)
    [] sID = secType -> parseTypeSection(v, buf, j)
    [] sID = secImport -> parseImportSection(v, buf, j)
    [] sID = secFunction -> parseFunctionSection(v, buf, j)
    [] sID = secTable -> parseTableSection(v, buf, j)
    [] sID = secMemory -> parseMemorySection(v, buf, j)
    [] sID = secGlobal -> parseGlobalSection(v, buf, j)
    [] sID = secExport -> parseExportSection(v, buf, j)
    [] sID = secStart -> parseStartSection(buf, j)
    [] sID = secElement -> parseElementSection(v, buf, j)
    [] sID = secCode -> parseCodeSection(v, buf, j)
    [] sID = secData -> parseDataSection(v, buf, j)

\* io.CopyN in the default case, with its error message.
discard(buf, j, offset) ==
  With(CopyN(buf, j, offset), LAMBDA c :
    IF Failed(c) THEN Fail(c.i, WrapN("discard section payload", <<offset>>, c.err))
    ELSE c)

\* The default case of parseSection: the payload length is read and the
\* payload discarded; then a section id above secData is an error.
parseUnknown(sID, buf, j) ==
  Try(readU32(buf, j), "read type section payload length", LAMBDA offset :
  TryRaw(discard(buf, offset.i, offset.v), LAMBDA c :
  IF sID > secData
    THEN Fail(c.i, Errorf("data corrupted; section id not valid", <<sID>>))
    ELSE Ret(c.i, <<>>)))

KnownIDs == secCustom..secData

\* parseSection after the kind byte sID: [i, err, s], s the sequence of the
\* sections to append (none for a skipped section).
parseSectionBody(v, sID, buf, j) ==
  IF sID \in KnownIDs
    THEN With(parseKnown(v, sID, buf, j), LAMBDA r :
           [i |-> r.i, err |-> r.err, s |-> IF Failed(r) THEN <<>> ELSE <<r.v>>])
    ELSE With(parseUnknown(sID, buf, j), LAMBDA r :
           [i |-> r.i, err |-> r.err, s |-> <<>>])

errDone == <<E("done", <<>>)>>

\* The kind byte: readByte in parser.go, readVarUint7 in sections.go, where
\* io.EOF on it becomes errDone.
readSectionID(v, buf, j) ==
  IF SectionsBuild(v)
    THEN With(readVarUint7(v, buf, j), LAMBDA r :
           IF ~Failed(r) THEN r
           ELSE IF r.err = io_EOF THEN Fail(r.i, errDone)
           ELSE Fail(r.i, Wrap("read section id", r.err)))
    ELSE Try(readByte(buf, j), "read section id", LAMBDA r : r)

parseSection(v, buf, j) ==
  With(readSectionID(v, buf, j), LAMBDA id :
    IF Failed(id) THEN [i |-> id.i, err |-> id.err, s |-> <<>>]
    ELSE parseSectionBody(v, id.v, buf, id.i))

\* strings.HasSuffix(err.Error(), io.EOF.Error()): the message ends with its
\* cause, and of the causes only "EOF" and "unexpected EOF" end in "EOF".
HasSuffixEOF(e) == Cause(e).msg \in {"EOF", "unexpected EOF"}

\* Whether the section loop of Parse ends without an error on the error e of
\* parseSection.
LoopEnds(v, e) == IF SectionsBuild(v) THEN e = errDone ELSE HasSuffixEOF(e)

\* The version word of the preamble.
preambleVersion(buf, j) ==
  TryDrop(read(buf, j, 4), "could not version", LAMBDA v :
    IF v.v # version1 THEN Fail(v.i, Errorf("unsupported version", v.v))
    ELSE Ret(v.i, <<>>))

\* parsePreamble without the version test, a faulty variant: C3 must fail on it.
parsePreamble_NoVersion(buf, j) ==
  TryDrop(read(buf, j, 4), "could not read file header", LAMBDA h :
    IF h.v # magicnumber THEN Fail(h.i, Errorf("not a wasm file", <<>>))
    ELSE TryDrop(read(buf, h.i, 4), "could not version", LAMBDA v : Ret(v.i, <<>>)))

parsePreamble(buf, j) ==
  TryDrop(read(buf, j, 4), "could not read file header", LAMBDA h :
    IF h.v # magicnumber THEN Fail(h.i, Errorf("not a wasm file", <<>>))
    ELSE preambleVersion(buf, h.i))

(***************************************************************************)
(* The streams Parse is run on: a preamble, up to MaxSections sections of  *)
(* the catalogue, and up to MaxCut bytes cut from the end.                 *)
(***************************************************************************)
\* The unsigned LEB128 encoding of a uint32 (a set of bits): 7 bits a byte,
\* low bits first, the high bit set on every byte but the last.
Group7(v, k) == SumBits({b - 7 * k : b \in {b \in v : b \div 7 = k}})
RECURSIVE EncodeFrom(_, _)
EncodeFrom(v, k) ==
  IF \A b \in v : b \div 7 <= k THEN <<Group7(v, k)>>
  ELSE <<Group7(v, k) + 128>> \o EncodeFrom(v, k + 1)
EncodeVarUint32(v) == EncodeFrom(v, 0)

Repeat(b, n) == [k \in 1..n |-> b]

\* A section as the format frames it: kind, payload length, payload.
Section(id, payload) == <<id>> \o EncodeVarUint32(ToBits(Len(payload))) \o payload

\* Sections of the twelve known kinds, framed and filled as the format says.
WellFormed ==
  [ Type      |-> Section(secType, <<1, 96, 0, 0>>),
    Function  |-> Section(secFunction, <<1, 0>>),
    Memory    |-> Section(secMemory, <<1, 0, 1>>),
    Start     |-> Section(secStart, <<0>>),
    Start3    |-> Section(secStart, <<3>>),
    Custom    |-> Section(secCustom, <<1, 97, 170>>),
    CustomNoName |-> Section(secCustom, <<0, 170>>),
    NameModule |-> Section(secCustom, <<4>> \o nameName \o <<0, 2, 1, 109>>),
    NameTwo   |-> Section(secCustom,
                    <<4>> \o nameName \o <<0, 2, 1, 109>> \o <<1, 1, 0>>),
    Import    |-> Section(secImport, <<1, 1, 109, 1, 102, 0, 0>>),
    Table     |-> Section(secTable, <<1, 112, 0, 1>>),
    Global    |-> Section(secGlobal, <<1, 127, 0, 65, 0, 11>>),
    Export    |-> Section(secExport, <<1, 1, 102, 0, 0>>),
    Element   |-> Section(secElement, <<1, 0, 65, 0, 11, 1, 0>>),
    Code      |-> Section(secCode, <<1, 2, 0, 11>>),
    Data      |-> Section(secData, <<1, 0, 65, 0, 11, 1, 255>>),
    CustomEmpty |-> Section(secCustom, <<0>>),
    CustomLong |-> Section(secCustom,
                    EncodeVarUint32(ToBits(LongNameLen)) \o Repeat(120, LongNameLen)
                      \o <<170>>),
    NameFunc  |-> Section(secCustom, <<4>> \o nameName \o <<1, 4, 1, 0, 1, 102>>),
    NameLocal |-> Section(secCustom,
                    <<4>> \o nameName \o <<2, 6, 1, 0, 1, 0, 1, 120>>),
    ImportTable  |-> Section(secImport, <<1, 1, 109, 1, 102, 1, 112, 0, 1>>),
    ImportMemory |-> Section(secImport, <<1, 1, 109, 1, 102, 2, 0, 1>>),
    ImportGlobal |-> Section(secImport, <<1, 1, 109, 1, 102, 3, 127, 0>>),
    CodeLocals   |-> Section(secCode, <<2, 4, 1, 1, 127, 11, 3, 0, 1, 11>>),
    CodeEmpty    |-> Section(secCode, <<1, 1, 0>>),
    Global11     |-> Section(secGlobal, <<1, 127, 0, 65, 11, 11>>),
    Element11    |-> Section(secElement, <<1, 0, 65, 11, 11, 1, 0>>),
    Data11       |-> Section(secData, <<1, 0, 65, 11, 11, 1, 255>>),
    TableMax     |-> Section(secTable, <<1, 112, 1, 1, 2>>) ]

\* Sections that are not: an unknown kind, a payload length one more and one
\* less than the payload, an unknown name type, an import of kind 4, a type
\* of form 0x40, a type with two results, a function body whose locals go
\* beyond its declared size.
Malformed ==
  [ Unknown   |-> Section(12, <<170>>),
    FunctionPadded |-> <<secFunction, 3, 1, 0, 0>>,
    FunctionShort  |-> <<secFunction, 1, 1, 0>>,
    NameBad   |-> Section(secCustom, <<4>> \o nameName \o <<9, 0>>),
    NameBad3  |-> Section(secCustom, <<4>> \o nameName \o <<3, 1, 0>>),
    ImportKind4    |-> Section(secImport, <<1, 1, 109, 1, 102, 4>>),
    TypeForm40     |-> Section(secType, <<1, 64, 0, 0>>),
    TypeTwoResults |-> Section(secType, <<1, 96, 0, 2, 127, 127>>),
    CodeOver       |-> Section(secCode, <<1, 1, 1, 1, 127>>),
    CustomShort    |-> <<secCustom, 1, 1, 97>> ]

Catalogue == WellFormed @@ Malformed

\* The kind byte of a catalogue section and the kind of section it decodes to.
KindName(id) ==
  CASE id = secCustom -> "Custom" [] id = secType -> "Type"
    [] id = secImport -> "Import" [] id = secFunction -> "Function"
    [] id = secTable -> "Table" [] id = secMemory -> "Memory"
    [] id = secGlobal -> "Global" [] id = secExport -> "Export"
    [] id = secStart -> "Start" [] id = secElement -> "Element"
    [] id = secCode -> "Code" [] id = secData -> "Data"
    [] OTHER -> "Unknown"

\* The sections that are followed by others in the streams of the model.
Core == {"Type", "Function", "Memory", "Start", "Start3", "Custom",
         "CustomNoName", "NameModule", "NameTwo", "Unknown", "FunctionPadded"}

Preambles ==
  [ ok      |-> magicnumber \o version1,
    magic   |-> <<0, 97, 115, 110>> \o version1,
    version |-> magicnumber \o <<2, 0, 0, 0>> ]

\* What the producer wrote: any section first, core sections after it.
SectionLists ==
  {<<>>} \cup
  UNION {{<<f>> \o t : f \in DOMAIN Catalogue, t \in [1..(n - 1) -> Core]}
         : n \in 1..MaxSections}

RECURSIVE Flatten(_)
Flatten(ws) == IF ws = <<>> THEN <<>> ELSE Catalogue[Head(ws)] \o Flatten(Tail(ws))

Streams ==
  {[pre |-> "ok", secs |-> ws, cut |-> c] : ws \in SectionLists, c \in 0..MaxCut}
  \cup {[pre |-> p, secs |-> ws, cut |-> c] :
          p \in {"magic", "version"}, ws \in {<<>>, <<"Type">>, <<"Unknown">>},
          c \in 0..MaxCut}

Whole(w) == Preambles[w.pre] \o Flatten(w.secs)
Bytes(w) == SubSeq(Whole(w), 1, Len(Whole(w)) - w.cut)

\* Where the k-th written section starts in the stream.
StartOf(w, k) == Len(Preambles[w.pre]) + Len(Flatten(SubSeq(w.secs, 1, k - 1)))
\* The written section that starts at offset at, "none" when none does.
NameAt(w, at) ==
  IF \E k \in DOMAIN w.secs : StartOf(w, k) = at
    THEN w.secs[CHOOSE k \in DOMAIN w.secs : StartOf(w, k) = at]
    ELSE "none"


(***************************************************************************)
(* Parse as a state machine: the preamble, then one step per parseSection  *)
(* call of the section loop.                                               *)
(***************************************************************************)
EvalIdle ==
  /\ expr = [consts |-> <<>>, tail |-> <<>>, cut |-> 0]
  /\ ebuf = <<>> /\ ei = 0 /\ stack = <<>> /\ eops = <<>>
  /\ epc = "idle" /\ eret = [stack |-> <<>>, err |-> NoErr]

FieldIdle == fbuf = <<>> /\ fop = "none" /\ fres = Ret(0, <<>>)

ReaderIdle ==
  rlen = 0 /\ rtaken = 0 /\ ri = 0 /\ rlast = [n |-> 0, err |-> NoErr]

CodecIdle ==
  cv = {} /\ cbuf = <<>> /\ cres = Ret(0, {}) /\ cpc = "idle" /\ csize = 0

Init ==
  /\ ver \in Versions
  /\ written \in {w \in Streams : w.cut <= Len(Whole(w))}
  /\ input = Bytes(written)
  /\ i = 0
  /\ pc = "preamble"
  /\ sections = <<>>
  /\ frames = <<>>
  /\ result = "none"
  /\ err = NoErr
  /\ CodecIdle
  /\ EvalIdle
  /\ ReaderIdle
  /\ FieldIdle

\* Parse up to the section loop: a preamble error is returned as it is.
PreambleDone(r) ==
  /\ i' = r.i
  /\ IF Failed(r)
       THEN pc' = "done" /\ result' = "error" /\ err' = r.err
       ELSE pc' = "sections" /\ result' = "none" /\ err' = NoErr

ParsePreamble ==
  /\ pc = "preamble"
  /\ PreambleDone(parsePreamble(input, i))
  /\ UNCHANGED <<ver, input, written, sections, frames, codecVars, evalVars, readerVars, fieldVars>>

\* Ghost: the frame of the section whose kind byte is at position at, as
\* the format defines it - the payload length pl follows the kind byte -
\* with the result r of parseSection on it.  name is the section the
\* producer wrote at that offset ("none": the cursor is inside a section),
\* whole says that all of it is in the stream.
Frame(at, pl, r) ==
  [id |-> input[at + 1], tag |-> readSectionID(ver, input, at).v,
   at |-> at, name |-> NameAt(written, at),
   whole |-> /\ NameAt(written, at) # "none"
             /\ at + Len(Catalogue[NameAt(written, at)]) <= Len(input),
   declared |-> IF Failed(pl) THEN -1 ELSE pl.v,
   payloadAt |-> pl.i, end |-> r.i, ok |-> ~Failed(r), s |-> r.s,
   before |-> Len(sections)]

\* One round of the section loop of Parse with r the result of parseSection.
LoopRound(r) ==
  /\ i' = r.i
  /\ IF ~Failed(r)
       THEN /\ sections' = sections \o r.s
            /\ UNCHANGED <<pc, result, err>>
     ELSE IF Cause(r.err).msg = "panic"
       THEN /\ pc' = "done" /\ result' = "panic" /\ err' = r.err
            /\ UNCHANGED sections
     ELSE IF LoopEnds(ver, r.err)
       THEN /\ pc' = "done" /\ result' = "ok" /\ err' = NoErr
            /\ UNCHANGED sections
     ELSE /\ pc' = "done" /\ result' = "error"
          /\ err' = WrapN("[0x%06x] parse section", <<r.i>>, r.err)
          /\ UNCHANGED sections

\* A round that read a kind byte.
SectionRound(r) ==
  /\ LoopRound(r)
  /\ frames' = Append(frames, Frame(i, readU32(input, i + 1), r))

\* A round that reads the kind byte of one of the twelve known kinds.
ParseKnownSection ==
  /\ pc = "sections"
  /\ i < Len(input)
  /\ input[i + 1] \in KnownIDs
  /\ SectionRound(parseSection(ver, input, i))
  /\ UNCHANGED <<ver, input, written, codecVars, evalVars, readerVars, fieldVars>>

\* A round that reads any other kind byte: the default case.
ParseUnknownSection ==
  /\ pc = "sections"
  /\ i < Len(input)
  /\ input[i + 1] \notin KnownIDs
  /\ SectionRound(parseSection(ver, input, i))
  /\ UNCHANGED <<ver, input, written, codecVars, evalVars, readerVars, fieldVars>>

\* A round that finds the stream at its end where the kind byte is expected.
ParseEnd ==
  /\ pc = "sections"
  /\ i >= Len(input)
  /\ LoopRound(parseSection(ver, input, i))
  /\ UNCHANGED <<ver, input, written, frames, codecVars, evalVars, readerVars, fieldVars>>

Next == ParsePreamble \/ ParseKnownSection \/ ParseUnknownSection \/ ParseEnd

Spec == Init /\ [][Next]_vars

\* Parse runs on its caller's goroutine and nothing suspends it: a step that
\* can be taken is taken.
LiveSpec == Init /\ [][Next]_vars /\ WF_vars(Next)

(***************************************************************************)
(* The codec on its own: a value is written in LEB128, bytes may follow    *)
(* it, and readVarUint32 reads it back from the start of the buffer.       *)
(***************************************************************************)
\* The values tried: the small ones, and of the large ones 2^k and 2^(k+1)-1.
CodecValues ==
  {ToBits(n) : n \in 0..MaxCodecValue}
    \cup {0..k : k \in Bits32} \cup {{k} : k \in Bits32}

\* What may follow the encoding in the buffer.
Trails == UNION {[1..n -> {0, 255}] : n \in 0..MaxTrail}

CodecInit ==
  /\ ver = "parser"
  /\ written = [pre |-> "ok", secs |-> <<>>, cut |-> 0]
  /\ input = <<>>
  /\ i = 0
  /\ pc = "done"
  /\ sections = <<>>
  /\ frames = <<>>
  /\ result = "none"
  /\ err = NoErr
  /\ cv \in CodecValues
  /\ cbuf = <<>>
  /\ cres = Ret(0, {})
  /\ cpc = "idle"
  /\ csize = 0
  /\ EvalIdle
  /\ ReaderIdle
  /\ FieldIdle

Encode ==
  /\ cpc = "idle"
  /\ \E t \in Trails : cbuf' = EncodeVarUint32(cv) \o t
  /\ cpc' = "encoded"
  /\ UNCHANGED <<cv, cres, csize, parseVars, evalVars, readerVars, fieldVars>>

\* The value is read back and, as parseCustomSection does with a name
\* length it has read, varUint32Size is taken of it.
Decode ==
  /\ cpc = "encoded"
  /\ cres' = readVarUint32(cbuf, 0)
  /\ csize' = varUint32Size(Num(readVarUint32(cbuf, 0).v))
  /\ cpc' = "decoded"
  /\ UNCHANGED <<cv, cbuf, parseVars, evalVars, readerVars, fieldVars>>

CodecNext == Encode \/ Decode

CodecSpec == CodecInit /\ [][CodecNext]_vars

(***************************************************************************)
(* Eval on its own: an expression is written - i32.const instructions,     *)
(* then an end marker, nothing, or another instruction - some bytes may be *)
(* cut from its end, and Eval runs on the buffer, one step per round of    *)
(* its loop.                                                               *)
(***************************************************************************)
\* Signed LEB128 of an int32: 7 bits per byte, low group first, up to the
\* group whose bit 6 is the sign of all that is left.
RECURSIVE EncodeVarInt32(_)
EncodeVarInt32(n) ==
  IF (n \div 128 = 0 /\ n % 128 < 64) \/ (n \div 128 = -1 /\ n % 128 >= 64)
    THEN <<n % 128>>
    ELSE <<(n % 128) + 128>> \o EncodeVarInt32(n \div 128)

\* The int32 values tried: around the one-byte sign boundary, the values of
\* the repository's test, and the two ends of the range.
ConstValues ==
  {0, 1, 63, 64, 127, 128, 65536, 81696, Huge, -1, -64, -65, -Huge - 1}

Instr(c) == <<i32Const>> \o EncodeVarInt32(c)

RECURSIVE Instrs(_)
Instrs(cs) == IF cs = <<>> THEN <<>> ELSE Instr(Head(cs)) \o Instrs(Tail(cs))

\* What follows the constants: the end marker, nothing, or an instruction
\* Eval does not know (local.get 0, i64.const 1, nop) and the end marker.
ExprTails == {<<evalEnd>>, <<>>, <<32, 0, evalEnd>>, <<66, 1, evalEnd>>, <<1, evalEnd>>}

Exprs ==
  {[consts |-> cs, tail |-> t, cut |-> c] :
     cs \in UNION {[1..n -> ConstValues] : n \in 0..MaxConsts},
     t \in ExprTails, c \in 0..MaxExprCut}

ExprWhole(x) == Instrs(x.consts) \o x.tail
ExprBytes(x) == SubSeq(ExprWhole(x), 1, Len(ExprWhole(x)) - x.cut)

ParseIdle ==
  /\ ver = "parser"
  /\ written = [pre |-> "ok", secs |-> <<>>, cut |-> 0]
  /\ input = <<>> /\ i = 0 /\ pc = "done"
  /\ sections = <<>> /\ frames = <<>> /\ result = "none" /\ err = NoErr

EvalInit ==
  /\ ParseIdle
  /\ CodecIdle
  /\ expr \in {x \in Exprs : x.cut <= Len(ExprWhole(x))}
  /\ ebuf = ExprBytes(expr)
  /\ ei = 0
  /\ stack = <<>>
  /\ eops = <<>>
  /\ epc = "loop"
  /\ eret = [stack |-> <<>>, err |-> NoErr]
  /\ ReaderIdle
  /\ FieldIdle

\* A round of Eval's loop with result r; got says that an opcode was read.
EvalRound(r, got) ==
  /\ ei' = r.i
  /\ eops' = IF got THEN Append(eops, ebuf[ei + 1]) ELSE eops
  /\ IF r.done
       THEN epc' = "done" /\ eret' = [stack |-> r.stack, err |-> r.err]
            /\ UNCHANGED stack
       ELSE stack' = r.stack /\ UNCHANGED <<epc, eret>>
  /\ UNCHANGED <<expr, ebuf, parseVars, codecVars, readerVars, fieldVars>>

\* The buffer is empty where an opcode is expected.
EvalEOF ==
  /\ epc = "loop"
  /\ ei >= Len(ebuf)
  /\ EvalRound(evalRound(ebuf, ei, stack), FALSE)

\* The opcode is the end marker.
EvalEnd ==
  /\ epc = "loop"
  /\ ei < Len(ebuf)
  /\ ebuf[ei + 1] = evalEnd
  /\ EvalRound(evalRound(ebuf, ei, stack), TRUE)

\* The opcode is i32.const.
EvalConst ==
  /\ epc = "loop"
  /\ ei < Len(ebuf)
  /\ ebuf[ei + 1] = i32Const
  /\ EvalRound(evalRound(ebuf, ei, stack), TRUE)

\* Any other opcode.
EvalOther ==
  /\ epc = "loop"
  /\ ei < Len(ebuf)
  /\ ebuf[ei + 1] \notin {evalEnd, i32Const}
  /\ EvalRound(evalRound(ebuf, ei, stack), TRUE)

EvalNext == EvalEOF \/ EvalEnd \/ EvalConst \/ EvalOther

EvalSpec == EvalInit /\ [][EvalNext]_vars

(***************************************************************************)
(* The reader on its own, over any io.Reader: a Read of the client's       *)
(* stream returns some of the bytes asked for, io.EOF when none is left,   *)
(* or - as io.Reader allows - its last bytes together with io.EOF.         *)
(***************************************************************************)
ReaderInit ==
  /\ ParseIdle
  /\ CodecIdle
  /\ EvalIdle
  /\ FieldIdle
  /\ rlen \in 0..MaxStreamLen
  /\ rtaken = 0
  /\ ri = 0
  /\ rlast = [n |-> 0, err |-> NoErr]

\* reader.Read when r.rd.Read returns r.
ReaderRead(r) ==
  /\ rtaken' = rtaken + r.n
  /\ ri' = reader_Count(ri, r).i
  /\ rlast' = [n |-> reader_Count(ri, r).n, err |-> reader_Count(ri, r).err]
  /\ UNCHANGED <<rlen, parseVars, codecVars, evalVars, fieldVars>>

\* The stream returns n > 0 bytes and no error.
ReadData ==
  \E len \in 1..MaxRead : \E n \in 1..Min(len, rlen - rtaken) :
    ReaderRead([n |-> n, err |-> NoErr])

\* The stream has nothing left: 0, io.EOF.
ReadAtEnd ==
  /\ rtaken = rlen
  /\ ReaderRead([n |-> 0, err |-> io_EOF])

\* The stream returns its last n > 0 bytes and io.EOF in the same call.
ReadDataAndEOF ==
  /\ rtaken < rlen
  /\ rlen - rtaken <= MaxRead
  /\ ReaderRead([n |-> rlen - rtaken, err |-> io_EOF])

ReaderNext == ReadData \/ ReadAtEnd \/ ReadDataAndEOF

ReaderSpec == ReaderInit /\ [][ReaderNext]_vars

(***************************************************************************)
(* The field decoders on their own: readVarInt7, readVarUint32 and         *)
(* parseResizableLimits each run at the start of a byte string.            *)
(***************************************************************************)
\* The bytes tried: small values, the sign bit of a 7-bit value (0x40), the
\* largest 7-bit value, a bare continuation bit, all bits.
FieldBytes == {0, 1, 2, 64, 127, 128, 255}

\* Short strings of these bytes, and varints of up to MaxContinued
\* continuation bytes.
FieldBufs ==
  UNION {[1..n -> FieldBytes] : n \in 0..MaxFieldLen}
    \cup {Repeat(c, n) \o <<l>> : c \in {128, 255}, n \in 1..MaxContinued,
                                 l \in {1, 127}}

FieldInit ==
  /\ ParseIdle
  /\ CodecIdle
  /\ EvalIdle
  /\ ReaderIdle
  /\ fbuf \in FieldBufs
  /\ fop = "none"
  /\ fres = Ret(0, <<>>)

FieldRun(op, r) ==
  /\ fop = "none"
  /\ fop' = op
  /\ fres' = r
  /\ UNCHANGED <<fbuf, parseVars, codecVars, evalVars, readerVars>>

ReadVarInt7 == FieldRun("int7", readVarInt7(fbuf, 0))
ReadVarUint32 == FieldRun("uint32", readVarUint32(fbuf, 0))
ParseResizableLimits == FieldRun("limits", parseResizableLimits(fbuf, 0))

FieldNext == ReadVarInt7 \/ ReadVarUint32 \/ ParseResizableLimits

FieldSpec == FieldInit /\ [][FieldNext]_vars

(***************************************************************************)
(* Properties.                                                             *)
(***************************************************************************)
Done == pc = "done"

\* The frames of the sections the producer wrote under one of the names ns
\* and that are whole in the stream.
FramesOf(ns) == {k \in DOMAIN frames : frames[k].name \in ns /\ frames[k].whole}

\* The payload bytes the decoder of frame f took.
Consumed(f) == f.end - f.payloadAt

\* C1: whenever Parse succeeds, every section's decoder consumed as many
\* payload bytes as the section's header declares; and a section whose
\* payload is one byte longer or shorter than declared makes Parse fail
\* with the length-mismatch error that names the declared and the consumed
\* count.
C1_PayloadConsumed ==
  /\ result = "ok" =>
       \A k \in DOMAIN frames : frames[k].ok => Consumed(frames[k]) = frames[k].declared
  /\ \A k \in FramesOf({"FunctionPadded", "FunctionShort"}) :
       /\ ~frames[k].ok
       /\ result = "error"
       /\ Cause(err) = E("section was not fully read",
                         <<frames[k].declared, Consumed(frames[k])>>)

\* C2: Parse succeeds only when the stream ends where a kind byte is
\* expected: a successful Parse has no round that read a kind byte and then
\* failed.
C2_EofOnlyAtKindByte ==
  result = "ok" => \A k \in DOMAIN frames : frames[k].ok

\* The first eight bytes of the stream (fewer when it is shorter).
Prefix8 == SubSeq(input, 1, Min(8, Len(input)))
BadPreamble == Prefix8 # magicnumber \o version1

\* C3: when the magic or the version of the stream is wrong, Parse reads no
\* section byte - at most the 8 bytes of the preamble are taken, no round of
\* the section loop runs - and it ends with an error and no Module.
C3_BadPreamble ==
  BadPreamble =>
    /\ i <= 8
    /\ pc # "sections"
    /\ frames = <<>> /\ sections = <<>>
    /\ Done => result = "error" /\ err # NoErr

\* C3's case: a stream with a wrong version and a section after it, ended.
C3_Witness ==
  /\ Done /\ written.pre = "version" /\ written.secs # <<>> /\ written.cut = 0
  /\ Len(input) > 8 /\ i = 8 /\ result = "error"

\* The kind of a decoded section against the kind byte of the section
\* written: a custom section named "name" decodes to a Name section.
KindMatches(s, id) == s.kind = KindName(id) \/ (id = secCustom /\ s.kind = "Name")

\* The stream is a valid preamble and well-formed sections, all of it.
AllWellFormed ==
  /\ written.pre = "ok" /\ written.cut = 0
  /\ \A k \in DOMAIN written.secs : written.secs[k] \in DOMAIN WellFormed

\* C4: a valid preamble followed by N >= 0 well-formed sections decodes
\* without error to N sections, in order, each of the kind written.
C4_SectionsInOrder ==
  (Done /\ AllWellFormed) =>
    /\ result = "ok"
    /\ Len(sections) = Len(written.secs)
    /\ \A k \in DOMAIN sections :
         KindMatches(sections[k], Catalogue[written.secs[k]][1])

\* C5: a section of an unknown kind whose payload is in the stream is not
\* an error: exactly its declared payload is skipped, nothing is added to
\* the result, and Parse goes on.
C5_UnknownSkipped ==
  \A k \in FramesOf({"Unknown"}) :
    /\ frames[k].ok
    /\ Consumed(frames[k]) = frames[k].declared
    /\ frames[k].s = <<>>
    /\ result # "error"

\* C6: once a kind byte above secData was read, Parse ends with an error
\* and no Module, also when the stream ends inside the payload to skip;
\* when the payload was there, the error is the corruption error.
C6_CorruptionIsError ==
  \A k \in DOMAIN frames : frames[k].id > secData =>
    /\ Done /\ result = "error"
    /\ frames[k].payloadAt + frames[k].declared <= Len(input)
         /\ frames[k].declared >= 0
         => Cause(err).msg = "data corrupted; section id not valid"

\* C7: the Index of a decoded Start section is the varuint32 that follows
\* the payload length, and the decoder stops at the end of the payload,
\* where the next kind byte is.
C7_StartIndex ==
  \A k \in FramesOf({"Start", "Start3"}) :
    /\ frames[k].ok
    /\ frames[k].s[1].Index = readU32(input, frames[k].payloadAt).v
    /\ frames[k].end = frames[k].payloadAt + frames[k].declared

\* The name-length field of the custom section of frame f.
NameLen(f) == readU32(input, f.payloadAt)

\* C8: a custom section not named "name", of declared length L, with a
\* name-length field of k bytes and a name of n bytes, decodes to a Payload
\* of L - k - n bytes, and its decoder takes exactly L bytes.
C8_CustomPayload ==
  \A k \in FramesOf({"Custom", "CustomNoName", "CustomEmpty", "CustomLong"}) :
    /\ frames[k].ok
    /\ Len(frames[k].s[1].Payload) =
         frames[k].declared - (NameLen(frames[k]).i - frames[k].payloadAt)
           - NameLen(frames[k]).v
    /\ Consumed(frames[k]) = frames[k].declared

\* C9: the decoder of a custom section named "name" stops exactly at the
\* end of the declared payload, with one name subsection or with several.
C9_NameSectionConsumed ==
  \A k \in FramesOf({"NameModule", "NameFunc", "NameLocal", "NameTwo"}) :
    /\ frames[k].ok
    /\ Consumed(frames[k]) = frames[k].declared

\* C10: readVarUint32 on the LEB128 encoding of a value gives the value
\* back, without error, and takes the bytes of the encoding and no more.
C10_RoundTrip ==
  cpc = "decoded" =>
    /\ cres.err = NoErr
    /\ cres.v = cv
    /\ cres.i = Len(EncodeVarUint32(cv))

\* C10's case: the largest value, five bytes long, read back with a byte
\* left after it.
C10_Witness ==
  /\ cpc = "decoded" /\ cv = Bits32
  /\ Len(EncodeVarUint32(cv)) = 5 /\ Len(cbuf) = 6 /\ cres.i = 5

\* C11: for every unsigned 32-bit value v, varUint32Size(v) is the number of
\* bytes of the 7-bits-per-byte encoding of v (1 for 0, 2 for 128..16383).
C11_SizeIsEncodedLength ==
  cpc = "decoded" => csize = Len(EncodeVarUint32(cv))

\* Eval has returned.
EvalDone == epc = "done"
\* The expression is its constants and the end marker, all of it in the buffer.
Constants(x) == x.tail = <<evalEnd>> /\ x.cut = 0
\* The buffer ends before an end marker or an instruction other than
\* i32.const: inside the constants or right after them.
Truncated(x) == x.cut >= Len(x.tail)

\* C12: for k >= 0 instructions i32.const c_i followed by the end marker,
\* Eval returns no error and the stack c_1..c_k in push order.
C12_ConstantsInPushOrder ==
  EvalDone /\ Constants(expr) => eret = [stack |-> expr.consts, err |-> NoErr]

\* C13: for every int32 n, negative ones included, Eval of i32.const n, end
\* returns the one-element stack [n].
C13_SignedImmediate ==
  EvalDone /\ Constants(expr) /\ Len(expr.consts) = 1
    => eret.err = NoErr /\ eret.stack = <<expr.consts[1]>>

\* C14: when the bytes run out before an end marker is read, at an opcode
\* position or inside an immediate, Eval returns the unexpected-end error
\* and no stack.
C14_UnexpectedEnd ==
  EvalDone /\ Truncated(expr)
    => eret = [stack |-> <<>>, err |-> io_ErrUnexpectedEOF]

\* C15: an opcode other than i32.const read before the end marker makes Eval
\* return the unsupported-instruction error and no stack, whatever was
\* pushed before it.
C15_UnknownOpcode ==
  EvalDone =>
    \A k \in DOMAIN eops :
      eops[k] \notin {evalEnd, i32Const}
        => eret = [stack |-> <<>>, err |-> Errorf("unknown opcode", <<eops[k]>>)]

\* Eval returned the error for local.get after two pushes.
C15_Witness ==
  /\ EvalDone /\ Len(stack) = 2 /\ eops = <<i32Const, i32Const, 32>>
  /\ eret = [stack |-> <<>>, err |-> Errorf("unknown opcode", <<32>>)]

\* The error e starts with the offset at in the form "[0x%06x] context: ...".
CarriesOffset(e, at) ==
  /\ Len(e) >= 2
  /\ e[1] = E("[0x%06x] parse section", <<at>>)

\* C16: every error returned by Parse, the preamble errors included, carries
\* the byte offset at which it was detected, as "[0x%06x] context: cause".
C16_ErrorsCarryOffset ==
  result = "error" => CarriesOffset(err, i)

\* The descriptors of an import entry that are not nil.
Populated(e) ==
  {d \in {"FunctionType", "TableType", "MemoryType", "GlobalType"} : e[d] # {}}

\* The descriptor an external kind selects.
DescriptorOf(kind) ==
  CASE kind = ExtKindFunction -> {"FunctionType"}
    [] kind = ExtKindTable -> {"TableType"}
    [] kind = ExtKindMemory -> {"MemoryType"}
    [] kind = ExtKindGlobal -> {"GlobalType"}
    [] OTHER -> {}

\* C17: in every Module returned by Parse every import entry has exactly one
\* descriptor populated, the one its kind byte selects, whatever the kind byte.
C17_OneDescriptor ==
  result = "ok" =>
    \A k \in DOMAIN sections : sections[k].kind = "Import" =>
      \A n \in DOMAIN sections[k].Entries :
        /\ Cardinality(Populated(sections[k].Entries[n])) = 1
        /\ Populated(sections[k].Entries[n])
             = DescriptorOf(sections[k].Entries[n].Kind)

\* C18: in every Module returned by Parse every Type entry has the form 0x60
\* and at most one result type.
C18_FuncTypeShape ==
  result = "ok" =>
    \A k \in DOMAIN sections : sections[k].kind = "Type" =>
      \A n \in DOMAIN sections[k].Entries :
        /\ sections[k].Entries[n].Form = 96
        /\ Len(sections[k].Entries[n].ReturnTypes) <= 1

\* The bytes a varuint32 of value n occupies in the format.
FieldLen(n) == Len(EncodeVarUint32(ToBits(n)))

\* The bytes the locals list ls of a function body occupies: its count and,
\* per local entry, a count and a one-byte value type.
RECURSIVE LocalEntriesLen(_)
LocalEntriesLen(ls) ==
  IF ls = <<>> THEN 0 ELSE FieldLen(Head(ls).Count) + 1 + LocalEntriesLen(Tail(ls))
LocalsLen(ls) == FieldLen(Len(ls)) + LocalEntriesLen(ls)

\* The decoded bodies bs against the stream from offset at on: each Code
\* blob has S - K bytes, S the body size declared at the body's start and K
\* the bytes of its locals list, and the next body starts S bytes after the
\* body-size field.  The offset after the last body, -1 on a mismatch.
RECURSIVE BodiesEnd(_, _)
BodiesEnd(at, bs) ==
  IF bs = <<>> THEN at
  ELSE With(readU32(input, at), LAMBDA S :
         IF /\ LocalsLen(Head(bs).Locals) <= S.v
            /\ Len(Head(bs).Code) = S.v - LocalsLen(Head(bs).Locals)
           THEN BodiesEnd(S.i + S.v, Tail(bs))
           ELSE -1)

CodeSections == {"Code", "CodeLocals", "CodeEmpty"}

\* C19: for every Code entry with declared body size S whose locals occupy
\* K <= S bytes, Code has S - K bytes and the cursor ends S bytes past the
\* body-size field, where the next entry starts.
C19_CodeBodyLength ==
  \A k \in FramesOf(CodeSections) :
    frames[k].ok =>
      BodiesEnd(readU32(input, frames[k].payloadAt).i, frames[k].s[1].Bodies)
        = frames[k].end

\* A Code section of two bodies was decoded, the first with a local entry.
C19_Witness ==
  \E k \in FramesOf({"CodeLocals"}) :
    /\ frames[k].ok
    /\ Len(frames[k].s[1].Bodies) = 2
    /\ frames[k].s[1].Bodies[1].Locals # <<>>
    /\ Len(frames[k].s[1].Bodies[2].Code) = 2

\* C20: Index() is the number of bytes taken from the underlying stream so
\* far, the bytes of a read that returned bytes together with an error
\* included.
C20_IndexIsBytesTaken ==
  ri = rtaken

\* The name type byte of the name section of frame f: it follows the payload
\* length, the name length and the four bytes of "name".
NameTypeOf(f) == input[f.payloadAt + 1 + Len(nameName) + 1]

\* C21: in a custom section named "name" a discriminant byte outside the
\* three known name types makes Parse fail with an error that names the
\* byte, and no Module is returned.
C21_UnknownNameType ==
  \A k \in FramesOf({"NameBad", "NameBad3"}) :
    /\ NameTypeOf(frames[k]) \notin {NameTypeModule, NameTypeFunction, NameTypeLocal}
    /\ ~frames[k].ok
    /\ result = "error"
    /\ Cause(err) = E("unknown name section", <<NameTypeOf(frames[k])>>)

\* Parse ended in error on a name section of name type 3.
C21_Witness ==
  /\ Done /\ result = "error" /\ sections = <<>>
  /\ \E k \in FramesOf({"NameBad3"}) : NameTypeOf(frames[k]) = 3

\* C22: for every kind byte k in 0..11 read from the stream the section is
\* routed to the decoder of kind k: the tag used for dispatch is the byte
\* read, and what is decoded is a section of that kind.
C22_DispatchByKindByte ==
  \A k \in DOMAIN frames :
    frames[k].id \in KnownIDs =>
      /\ frames[k].tag = frames[k].id
      /\ frames[k].ok => KindMatches(frames[k].s[1], frames[k].id)

\* The low 7 bits of the byte b as a signed quantity, bit 6 the sign.
Signed7(b) == IF b % 128 >= 64 THEN (b % 128) - 128 ELSE b % 128

\* C23: the signed 7-bit read consumes one byte and returns its low 7 bits
\* as a signed quantity with the sign at bit 6: a value in -64..63.
C23_Signed7 ==
  fop = "int7" /\ fbuf # <<>>
    => ~Failed(fres) /\ fres.i = 1 /\ fres.v = Signed7(fbuf[1])

\* The place of the first byte of buf without the continuation bit, 0 when
\* every byte has it.
VarintLen(buf) ==
  IF \E k \in 1..Len(buf) : buf[k] < 128
  THEN CHOOSE k \in 1..Len(buf) :
         buf[k] < 128 /\ \A m \in 1..(k - 1) : buf[m] >= 128
  ELSE 0

\* C24: readVarUint32 has no limit on the bytes it reads: it reads through
\* the first byte without the continuation bit, the result is the sum of
\* (b_i & 0x7F) << 7i in 32 bits, groups at bit offset 32 and more add
\* nothing, and it fails only when the stream ends before that byte.
C24_VarUint32Unbounded ==
  fop = "uint32" =>
    IF VarintLen(fbuf) = 0 THEN Failed(fres)
    ELSE /\ ~Failed(fres)
         /\ fres.i = VarintLen(fbuf)
         /\ fres.v = {n \in Bits32 : /\ n \div 7 < VarintLen(fbuf)
                                     /\ Bit(fbuf[(n \div 7) + 1] % 128, n % 7)}

\* C24's case: an encoding of seven bytes read to its end, its groups at
\* the offsets 35 and 42 all ones and dropped.
C24_Witness ==
  /\ fop = "uint32" /\ fbuf = Repeat(255, 6) \o <<127>>
  /\ ~Failed(fres) /\ fres.i = 7 /\ fres.v = Bits32

\* C25: parseResizableLimits reads a flag byte and the initial size; for the
\* flag zero it reads nothing more and Maximum is 0, for any other flag it
\* reads exactly one more varuint32, the Maximum.
C25_LimitsByFlag ==
  fop = "limits" /\ fbuf # <<>> /\ ~Failed(readU32(fbuf, 1)) =>
    IF fbuf[1] = 0
    THEN /\ ~Failed(fres)
         /\ fres.i = readU32(fbuf, 1).i
         /\ fres.v = [Initial |-> readU32(fbuf, 1).v, Maximum |-> 0]
    ELSE IF Failed(readU32(fbuf, readU32(fbuf, 1).i)) THEN Failed(fres)
    ELSE /\ ~Failed(fres)
         /\ fres.i = readU32(fbuf, readU32(fbuf, 1).i).i
         /\ fres.v = [Initial |-> readU32(fbuf, 1).v,
                      Maximum |-> readU32(fbuf, readU32(fbuf, 1).i).v]

\* C25's case: the flag 2, neither 0 nor 1, with the maximum 127 read after
\* the initial size 1 and a byte left unread.
C25_Witness ==
  /\ fop = "limits" /\ fbuf = <<2, 1, 127, 64>>
  /\ ~Failed(fres) /\ fres.i = 3 /\ fres.v = [Initial |-> 1, Maximum |-> 127]

\* The initializer and offset expressions the producer wrote, by section:
\* i32.const 0; end and i32.const 11; end.
InitExprs ==
  [ Global |-> <<65, 0, 11>>,  Global11 |-> <<65, 11, 11>>,
    Element |-> <<65, 0, 11>>, Element11 |-> <<65, 11, 11>>,
    Data |-> <<65, 0, 11>>,    Data11 |-> <<65, 11, 11>> ]

\* The expression bytes captured for the first entry of a section.
Captured(s) == IF s.kind = "Global" THEN s.Globals[1].Init
               ELSE s.Entries[1].Offset

\* C26: for a global initializer, an element offset or a data offset
\* written as i32.const n; end, the captured bytes are the whole expression
\* through its end marker for every n, the n with a byte 0x0B in the
\* immediate included (n = 11): Eval of the captured bytes succeeds with n,
\* and the cursor stands right after the expression, so that the section
\* is decoded to its end.
C26_InitExprCaptured ==
  \A k \in FramesOf(DOMAIN InitExprs) :
    frames[k].tag = frames[k].id =>
      /\ frames[k].ok
      /\ frames[k].end = frames[k].at + Len(Catalogue[frames[k].name])
      /\ Captured(frames[k].s[1]) = InitExprs[frames[k].name]
      /\ Eval(Captured(frames[k].s[1]), 0, <<>>).err = NoErr
      /\ Eval(Captured(frames[k].s[1]), 0, <<>>).stack
           = <<InitExprs[frames[k].name][2]>>

\* The limits the producer wrote after the element type 0x70 of the one
\* table of a Table section: flag 0 with initial 1, flag 1 with initial 1
\* and maximum 2.
TableLimits ==
  [ Table    |-> [Initial |-> 1, Maximum |-> 0],
    TableMax |-> [Initial |-> 1, Maximum |-> 2] ]

\* C27: a Table section whose entries are an element-type byte followed by
\* resizable limits is decoded to the end of its declared payload, and the
\* Initial and Maximum of each entry are the encoded ones, for the flag 0
\* and for the flag 1.
C27_TableEntries ==
  \A k \in FramesOf(DOMAIN TableLimits) :
    frames[k].tag = frames[k].id =>
      /\ frames[k].ok
      /\ Consumed(frames[k]) = frames[k].declared
      /\ Len(frames[k].s[1].Entries) = 1
      /\ frames[k].s[1].Entries[1].Limits = TableLimits[frames[k].name]

\* C28: the bytecode length of a function body is never negative when it
\* sizes Code: a body whose locals run past the end its size declares makes
\* Parse return an error, it does not end Parse abnormally.
C28_CodeLengthNotNegative ==
  /\ result # "panic"
  /\ \A k \in FramesOf({"CodeOver"}) :
       frames[k].tag = frames[k].id => ~frames[k].ok /\ result = "error"

\* C29: what is left of a custom section's declared length after the name
\* and the name-length field never wraps below zero: a custom section that
\* declares 1 byte and holds a name-length field and a name of 1 byte each
\* makes Parse return an error, and its decoder takes no byte past the name
\* for a Payload.
C29_CustomLengthNoWrap ==
  \A k \in FramesOf({"CustomShort"}) :
    frames[k].tag = frames[k].id =>
      /\ ~frames[k].ok
      /\ frames[k].end <= frames[k].at + Len(Catalogue["CustomShort"])
      /\ Done => result = "error"

\* C30: on every finite stream Parse eventually returns, a Module or an
\* error.
C30_ParseReturns == <>(Done /\ result \in {"ok", "error"})
====
